---- MODULE Spec2Model ----
(***************************************************************************)
(* Model of the robot simulation of src/untitled1/main.cpp: the two        *)
(* robot classes, the RobotManager with its live and dead containers, and  *)
(* the main loop that reads N records and, for each, first advances the    *)
(* time and then dispatches the command.                                   *)
(*                                                                         *)
(* uint32_t values that take part in arithmetic or ordering (times,        *)
(* blood, heat, levels, the third operand) are kept as pairs <<hi, lo>> of *)
(* 16-bit halves, so that the 32-bit width is exact.  team_id and robot_id *)
(* are only ever compared for equality and are kept as plain numbers.      *)
(***************************************************************************)
EXTENDS Integers, Sequences, FiniteSets, TLC

\* the program: the two containers, the clock, standard output, and main's
\* loop counter, position and current record
VARIABLES live_robots_, dead_robots_, last_time_, output, i, pc, rec

\* history of the run, read by the properties only: the robots destroyed by
\* the latest HandleTimeChange and the time it let pass, and how many records the
\* input has followed the end-to-end scenario (-1 once it has left it)
VARIABLES killed, elapsed, e2e

vars == <<live_robots_, dead_robots_, last_time_, output, i, pc, rec, killed, elapsed, e2e>>

-----------------------------------------------------------------------------
(* uint32_t                                                                *)

Base == 2^16

U32(n) == <<n \div Base, n % Base>>

Val(x) == x[1] * Base + x[2]

Gt(a, b) == a[1] > b[1] \/ (a[1] = b[1] /\ a[2] > b[2])

Le(a, b) == ~Gt(a, b)

\* a - b on uint32_t (wraps modulo 2^32)
SubU32(a, b) ==
    LET lo == a[2] - b[2]
        borrow == IF lo < 0 THEN 1 ELSE 0
    IN  <<(a[1] - b[1] - borrow) % Base, lo % Base>>

\* a + b on uint32_t (wraps modulo 2^32)
AddU32(a, b) ==
    LET lo == a[2] + b[2]
        carry == lo \div Base
    IN  <<(a[1] + b[1] + carry) % Base, lo % Base>>

-----------------------------------------------------------------------------
(* Bounds and inputs                                                       *)

\* number of records of the input (the N read by main)
N == 4

Teams == {1}

Ids == {1, 2}

Times == {U32(0), U32(50), U32(80), U32(181)}

Kinds == {U32(0), U32(1), U32(2)}

Damages == {U32(20), U32(300)}

Heats == {U32(50), U32(150)}

Levels == {U32(1), U32(2), U32(3), U32(4)}

Record(t, c, p1, p2, p3) == [time |-> t, cmd |-> c, p1 |-> p1, p2 |-> p2, p3 |-> p3]

Records ==
    {Record(t, "A", a, b, k) : t \in Times, a \in Teams, b \in Ids, k \in Kinds}
    \cup {Record(t, "F", a, b, d) : t \in Times, a \in Teams, b \in Ids, d \in Damages}
    \cup {Record(t, "H", a, b, h) : t \in Times, a \in Teams, b \in Ids, h \in Heats}
    \cup {Record(t, "U", a, b, l) : t \in Times, a \in Teams, b \in Ids, l \in Levels}
    \cup {Record(t, "X", a, b, U32(0)) : t \in Times, a \in Teams, b \in Ids}

NoRecord == Record(U32(0), "none", 0, 0, U32(0))

\* inputs over the whole uint32_t range, for one robot

NWide == 4

UINT32_MAX == <<Base - 1, Base - 1>>

WideTimes == {U32(0), U32(50), UINT32_MAX}

WideAmounts == {U32(1), U32(150), <<Base \div 2, 0>>, UINT32_MAX}

WideRecords ==
    {Record(t, "A", 1, 1, k) : t \in WideTimes, k \in {U32(0), U32(1)}}
    \cup {Record(t, c, 1, 1, d) : t \in WideTimes, c \in {"F", "H"}, d \in WideAmounts}
    \cup {Record(t, "U", 1, 1, l) : t \in WideTimes, l \in {U32(2), UINT32_MAX}}
    \cup {Record(t, "X", 1, 1, U32(0)) : t \in WideTimes}

\* longer inputs over fewer commands, for sequences of destructions and
\* revivals: a DAMAGE of 150 destroys an Infantry at once and an Engineer in two
\* hits, a HEAT of 300 lets an Infantry burn out by time 181

NLong == 7

LongTimes == {U32(0), U32(181)}

LongRecords ==
    {Record(t, "A", 1, b, k) : t \in LongTimes, b \in Ids, k \in {U32(0), U32(1)}}
    \cup {Record(t, "F", 1, b, U32(150)) : t \in LongTimes, b \in Ids}
    \cup {Record(t, "H", 1, b, U32(300)) : t \in LongTimes, b \in Ids}

-----------------------------------------------------------------------------
(* The robots                                                              *)

kInfantry == 0

kEngineer == 1

StaticCastRobotType(p3) == Val(p3)

BaseRobot(team_id, robot_id, type) ==
    [team_id |-> team_id, robot_id |-> robot_id, type |-> type,
     blood_ |-> U32(0), heat_ |-> U32(0), max_blood_ |-> U32(0),
     max_heat_ |-> U32(0), level_ |-> U32(1)]

GetId(r) == <<r.team_id, r.robot_id>>

IsDead(r) == Le(r.blood_, U32(0))

\* ChangeHeat testing the heat it had before the decrement
ChangeHeatStale(r, time_delta) ==
    LET heat == IF Gt(r.heat_, time_delta) THEN SubU32(r.heat_, time_delta) ELSE U32(0)
        blood == IF Gt(r.heat_, r.max_heat_)
                 THEN (IF Gt(r.blood_, time_delta)
                       THEN SubU32(r.blood_, time_delta) ELSE U32(0))
                 ELSE r.blood_
    IN  [r EXCEPT !.heat_ = heat, !.blood_ = blood]

ChangeHeat(r, time_delta) ==
    LET heat == IF Gt(r.heat_, time_delta) THEN SubU32(r.heat_, time_delta) ELSE U32(0)
        blood == IF Gt(heat, r.max_heat_)
                 THEN (IF Gt(r.blood_, time_delta)
                       THEN SubU32(r.blood_, time_delta) ELSE U32(0))
                 ELSE r.blood_
    IN  [r EXCEPT !.heat_ = heat, !.blood_ = blood]

InfantryCaps(level) ==
    IF level = U32(1) THEN <<U32(100), U32(100)>>
    ELSE IF level = U32(2) THEN <<U32(150), U32(200)>>
    ELSE IF level = U32(3) THEN <<U32(250), U32(300)>>
    ELSE <<U32(100), U32(100)>>

\* an Infantry rebuild that leaves blood_ as it is
InfantryRebuildNoBlood(r) ==
    LET caps == InfantryCaps(r.level_)
    IN  [r EXCEPT !.heat_ = U32(0), !.max_blood_ = caps[1], !.max_heat_ = caps[2]]

InfantryRebuild(r) ==
    LET caps == InfantryCaps(r.level_)
    IN  [r EXCEPT !.heat_ = U32(0), !.max_blood_ = caps[1], !.max_heat_ = caps[2],
                  !.blood_ = caps[1]]

EngineerRebuild(r) ==
    [r EXCEPT !.max_blood_ = U32(300), !.blood_ = U32(300), !.heat_ = U32(0),
              !.max_heat_ = U32(0)]

\* a rebuild that starts an Infantry again from level 1
RebuildFromLevel1(r) ==
    IF r.type = kInfantry
    THEN InfantryRebuild([r EXCEPT !.level_ = U32(1)])
    ELSE EngineerRebuild(r)

\* the virtual call robot->Rebuild()
Rebuild(r) == IF r.type = kInfantry THEN InfantryRebuild(r) ELSE EngineerRebuild(r)

InfantryRobot(team_id, robot_id) ==
    InfantryRebuild([BaseRobot(team_id, robot_id, kInfantry) EXCEPT !.level_ = U32(1)])

EngineerRobot(team_id, robot_id) ==
    EngineerRebuild(BaseRobot(team_id, robot_id, kEngineer))

\* Upgrade accepting the level the robot already has
UpgradeSameLevel(r, target_level) ==
    IF ~Gt(r.level_, target_level) /\ Le(target_level, U32(3))
    THEN InfantryRebuild([r EXCEPT !.level_ = target_level])
    ELSE r

Upgrade(r, target_level) ==
    IF Gt(target_level, r.level_) /\ Le(target_level, U32(3))
    THEN InfantryRebuild([r EXCEPT !.level_ = target_level])
    ELSE r

\* AddHeat stopping at max_heat_
AddHeatCapped(r, add_heat) ==
    LET sum == AddU32(r.heat_, add_heat)
    IN  [r EXCEPT !.heat_ = IF Gt(sum, r.max_heat_) THEN r.max_heat_ ELSE sum]

AddHeat(r, add_heat) == [r EXCEPT !.heat_ = AddU32(r.heat_, add_heat)]

-----------------------------------------------------------------------------
(* RobotManager                                                            *)

\* std::find_if: the least position among hits, 0 (end(), nullptr) when there is none
First(hits) == IF hits = {} THEN 0 ELSE CHOOSE k \in hits : \A j \in hits : k <= j

\* FindLiveRobot with the two ids compared in the wrong order
FindLiveRobotSwapped(team_id, robot_id) ==
    First({k \in 1..Len(live_robots_) : GetId(live_robots_[k]) = <<robot_id, team_id>>})

\* position in live_robots_ of the robot found, 0 for nullptr
FindLiveRobot(team_id, robot_id) ==
    First({k \in 1..Len(live_robots_) : GetId(live_robots_[k]) = <<team_id, robot_id>>})

\* FindDeadRobot comparing the ids and not the kind
FindDeadRobotAnyKind(team_id, robot_id, type) ==
    First({k \in 1..Len(dead_robots_) : GetId(dead_robots_[k]) = <<team_id, robot_id>>})

\* position in dead_robots_ of the robot found, 0 for nullptr
FindDeadRobot(team_id, robot_id, type) ==
    First({k \in 1..Len(dead_robots_) :
              /\ GetId(dead_robots_[k]) = <<team_id, robot_id>>
              /\ dead_robots_[k].type = type})

\* an erase loop that stops after the first element it removes
EraseFirst(s, team_id, robot_id) ==
    LET hit == First({k \in 1..Len(s) : GetId(s[k]) = <<team_id, robot_id>>})
    IN  IF hit = 0 THEN s ELSE SubSeq(s, 1, hit - 1) \o SubSeq(s, hit + 1, Len(s))

\* an erase loop that removes nothing
EraseNothing(s, team_id, robot_id) == s

\* the erase loops: s without the elements carrying (team_id, robot_id)
EraseId(s, team_id, robot_id) ==
    LET Keep(r) == GetId(r) # <<team_id, robot_id>>
    IN  SelectSeq(s, Keep)

IdsOf(s) == [k \in 1..Len(s) |-> GetId(s[k])]

\* a destruction that prints nothing
EmitNothing(out, r) == out

\* std::cout << "D" << " " << team_id << " " << robot_id << std::endl
Emit(out, r) == Append(out, GetId(r))

RemoveAt(s, k) == SubSeq(s, 1, k - 1) \o SubSeq(s, k + 1, Len(s))

\* the loop of HandleTimeChange leaving a destroyed robot in live_robots_
RECURSIVE TimeLoopNoErase(_, _, _)
TimeLoopNoErase(st, it, time_delta) ==
    IF it > Len(st.live)
    THEN st
    ELSE LET r == ChangeHeat(st.live[it], time_delta)
         IN  IF IsDead(r)
             THEN TimeLoopNoErase([live |-> [st.live EXCEPT ![it] = r],
                                   dead |-> Append(st.dead, r),
                                   out |-> Emit(st.out, r)], it + 1, time_delta)
             ELSE TimeLoopNoErase([st EXCEPT !.live[it] = r], it + 1, time_delta)

\* the loop of HandleTimeChange from position it on; st holds the two
\* containers and the output
RECURSIVE TimeLoop(_, _, _)
TimeLoop(st, it, time_delta) ==
    IF it > Len(st.live)
    THEN st
    ELSE LET r == ChangeHeat(st.live[it], time_delta)
         IN  IF IsDead(r)
             THEN TimeLoop([live |-> RemoveAt(st.live, it),
                            dead |-> Append(st.dead, r),
                            out |-> Emit(st.out, r)], it, time_delta)
             ELSE TimeLoop([st EXCEPT !.live[it] = r], it + 1, time_delta)

\* HandleTimeChange storing curr_time before its early return
HandleTimeChangeAlwaysSet(curr_time) ==
    IF Le(curr_time, last_time_)
    THEN /\ UNCHANGED <<live_robots_, dead_robots_, output>>
         /\ last_time_' = curr_time
    ELSE LET time_delta == SubU32(curr_time, last_time_)
             st == TimeLoop([live |-> live_robots_, dead |-> dead_robots_,
                             out |-> output], 1, time_delta)
         IN  /\ live_robots_' = st.live
             /\ dead_robots_' = st.dead
             /\ output' = st.out
             /\ last_time_' = curr_time

HandleTimeChange(curr_time) ==
    IF Le(curr_time, last_time_)
    THEN UNCHANGED <<live_robots_, dead_robots_, last_time_, output>>
    ELSE LET time_delta == SubU32(curr_time, last_time_)
             st == TimeLoop([live |-> live_robots_, dead |-> dead_robots_,
                             out |-> output], 1, time_delta)
         IN  /\ live_robots_' = st.live
             /\ dead_robots_' = st.dead
             /\ output' = st.out
             /\ last_time_' = curr_time

\* HandleCommandA inserting the robot at the front of live_robots_
AddOrReviveFront(team_id, robot_id, type) ==
    LET robot == FindDeadRobot(team_id, robot_id, type)
    IN  IF robot # 0
        THEN /\ live_robots_' = <<Rebuild(dead_robots_[robot])>> \o live_robots_
             /\ dead_robots_' = EraseId(dead_robots_, team_id, robot_id)
        ELSE /\ live_robots_' =
                   IF type = kInfantry
                   THEN <<InfantryRobot(team_id, robot_id)>> \o live_robots_
                   ELSE IF type = kEngineer
                   THEN <<EngineerRobot(team_id, robot_id)>> \o live_robots_
                   ELSE live_robots_
             /\ UNCHANGED dead_robots_

\* HandleCommandA building an Infantry for every kind that is not Engineer
AddOrReviveAnyKind(team_id, robot_id, type) ==
    LET robot == FindDeadRobot(team_id, robot_id, type)
    IN  IF robot # 0
        THEN /\ live_robots_' = Append(live_robots_, Rebuild(dead_robots_[robot]))
             /\ dead_robots_' = EraseId(dead_robots_, team_id, robot_id)
        ELSE /\ live_robots_' =
                   IF type = kEngineer
                   THEN Append(live_robots_, EngineerRobot(team_id, robot_id))
                   ELSE Append(live_robots_, InfantryRobot(team_id, robot_id))
             /\ UNCHANGED dead_robots_

\* a revival that rebuilds the robot and erases it from dead_robots_ but does
\* not push it into live_robots_
AddOrReviveNoPush(team_id, robot_id, type) ==
    LET robot == FindDeadRobot(team_id, robot_id, type)
    IN  IF robot # 0
        THEN /\ UNCHANGED live_robots_
             /\ dead_robots_' = EraseId(dead_robots_, team_id, robot_id)
        ELSE /\ live_robots_' =
                   IF type = kInfantry
                   THEN Append(live_robots_, InfantryRobot(team_id, robot_id))
                   ELSE IF type = kEngineer
                   THEN Append(live_robots_, EngineerRobot(team_id, robot_id))
                   ELSE live_robots_
             /\ UNCHANGED dead_robots_

\* HandleCommandA past its first return: revive the dead robot of this kind,
\* or else build a new one
AddOrRevive(team_id, robot_id, type) ==
    LET robot == FindDeadRobot(team_id, robot_id, type)
    IN  IF robot # 0
        THEN /\ live_robots_' = Append(live_robots_, Rebuild(dead_robots_[robot]))
             /\ dead_robots_' = EraseId(dead_robots_, team_id, robot_id)
        ELSE /\ live_robots_' =
                   IF type = kInfantry
                   THEN Append(live_robots_, InfantryRobot(team_id, robot_id))
                   ELSE IF type = kEngineer
                   THEN Append(live_robots_, EngineerRobot(team_id, robot_id))
                   ELSE live_robots_
             /\ UNCHANGED dead_robots_

\* HandleCommandA returning early only when the live robot has the kind asked for
HandleCommandASameKind(team_id, robot_id, type) ==
    IF /\ FindLiveRobot(team_id, robot_id) # 0
       /\ live_robots_[FindLiveRobot(team_id, robot_id)].type = type
    THEN UNCHANGED <<live_robots_, dead_robots_>>
    ELSE AddOrRevive(team_id, robot_id, type)

HandleCommandA(team_id, robot_id, type) ==
    IF FindLiveRobot(team_id, robot_id) # 0
    THEN UNCHANGED <<live_robots_, dead_robots_>>
    ELSE AddOrRevive(team_id, robot_id, type)

\* HandleCommandF subtracting the damage without the comparison
HandleCommandFUnclamped(team_id, robot_id, damage) ==
    LET robot == FindLiveRobot(team_id, robot_id)
    IN  IF robot = 0 \/ IsDead(live_robots_[robot])
        THEN UNCHANGED <<live_robots_, dead_robots_, output>>
        ELSE LET old == live_robots_[robot]
                 hit == [old EXCEPT !.blood_ = SubU32(old.blood_, damage)]
             IN  IF IsDead(hit)
                 THEN /\ dead_robots_' = Append(dead_robots_, hit)
                      /\ output' = Emit(output, hit)
                      /\ live_robots_' = EraseId(live_robots_, team_id, robot_id)
                 ELSE /\ live_robots_' = [live_robots_ EXCEPT ![robot] = hit]
                      /\ UNCHANGED <<dead_robots_, output>>

HandleCommandF(team_id, robot_id, damage) ==
    LET robot == FindLiveRobot(team_id, robot_id)
    IN  IF robot = 0 \/ IsDead(live_robots_[robot])
        THEN UNCHANGED <<live_robots_, dead_robots_, output>>
        ELSE LET old == live_robots_[robot]
                 new_blood == IF Gt(old.blood_, damage)
                              THEN SubU32(old.blood_, damage) ELSE U32(0)
                 hit == [old EXCEPT !.blood_ = new_blood]
             IN  IF IsDead(hit)
                 THEN /\ dead_robots_' = Append(dead_robots_, hit)
                      /\ output' = Emit(output, hit)
                      /\ live_robots_' = EraseId(live_robots_, team_id, robot_id)
                 ELSE /\ live_robots_' = [live_robots_ EXCEPT ![robot] = hit]
                      /\ UNCHANGED <<dead_robots_, output>>

\* HandleCommandH without the test of the robot's kind
HandleCommandHAnyKind(team_id, robot_id, add_heat) ==
    LET robot == FindLiveRobot(team_id, robot_id)
    IN  IF robot = 0
        THEN UNCHANGED live_robots_
        ELSE live_robots_' = [live_robots_ EXCEPT ![robot] = AddHeat(@, add_heat)]

HandleCommandH(team_id, robot_id, add_heat) ==
    LET robot == FindLiveRobot(team_id, robot_id)
    IN  IF robot = 0 \/ live_robots_[robot].type = kEngineer
        THEN UNCHANGED live_robots_
        ELSE live_robots_' = [live_robots_ EXCEPT ![robot] = AddHeat(@, add_heat)]

HandCommandU(team_id, robot_id, target_level) ==
    LET robot == FindLiveRobot(team_id, robot_id)
    IN  IF robot = 0 \/ live_robots_[robot].type = kEngineer
        THEN UNCHANGED live_robots_
        ELSE live_robots_' = [live_robots_ EXCEPT ![robot] = Upgrade(@, target_level)]

-----------------------------------------------------------------------------
(* main                                                                    *)

\* the scenario ADD(1,1,Infantry)@0, HEAT(1,1,150)@50, then a record at 80 and
\* one at 181 that do not name robot 1/1
ScenarioStep(k, r) ==
    \/ k = 1 /\ r = Record(U32(0), "A", 1, 1, U32(0))
    \/ k = 2 /\ r = Record(U32(50), "H", 1, 1, U32(150))
    \/ k = 3 /\ r.time = U32(80) /\ <<r.p1, r.p2>> # <<1, 1>>
    \/ k = 4 /\ r.time = U32(181) /\ <<r.p1, r.p2>> # <<1, 1>>

Init ==
    /\ live_robots_ = <<>>
    /\ dead_robots_ = <<>>
    /\ last_time_ = U32(0)
    /\ output = <<>>
    /\ i = 0
    /\ pc = "read"
    /\ rec = NoRecord
    /\ killed = <<>>
    /\ elapsed = U32(0)
    /\ e2e = 0

\* the loop reading a record without calling HandleTimeChange
ReadRecordNoTimeChange ==
    /\ pc = "read"
    /\ i < N
    /\ \E r \in Records :
          /\ rec' = r
          /\ e2e' = IF e2e = i /\ ScenarioStep(i + 1, r) THEN i + 1 ELSE -1
    /\ elapsed' = U32(0)
    /\ killed' = <<>>
    /\ pc' = "cmd"
    /\ UNCHANGED <<live_robots_, dead_robots_, last_time_, output, i>>

\* one iteration of the loop up to and including HandleTimeChange(time), for an
\* input of n records drawn from R
Read(R, n) ==
    /\ pc = "read"
    /\ i < n
    /\ \E r \in R :
          /\ rec' = r
          /\ HandleTimeChange(r.time)
          /\ e2e' = IF e2e = i /\ ScenarioStep(i + 1, r) THEN i + 1 ELSE -1
          /\ elapsed' = SubU32(last_time_', last_time_)
          /\ killed' = SubSeq(dead_robots_', Len(dead_robots_) + 1, Len(dead_robots_'))
    /\ pc' = "cmd"
    /\ UNCHANGED i

ReadRecord == Read(Records, N)

Finish ==
    /\ i' = i + 1
    /\ pc' = "read"
    /\ UNCHANGED <<last_time_, rec, killed, elapsed, e2e>>

CommandA ==
    /\ pc = "cmd" /\ rec.cmd = "A"
    /\ HandleCommandA(rec.p1, rec.p2, StaticCastRobotType(rec.p3))
    /\ UNCHANGED output
    /\ Finish

CommandF ==
    /\ pc = "cmd" /\ rec.cmd = "F"
    /\ HandleCommandF(rec.p1, rec.p2, rec.p3)
    /\ Finish

CommandH ==
    /\ pc = "cmd" /\ rec.cmd = "H"
    /\ HandleCommandH(rec.p1, rec.p2, rec.p3)
    /\ UNCHANGED <<dead_robots_, output>>
    /\ Finish

CommandU ==
    /\ pc = "cmd" /\ rec.cmd = "U"
    /\ HandCommandU(rec.p1, rec.p2, rec.p3)
    /\ UNCHANGED <<dead_robots_, output>>
    /\ Finish

CommandOther ==
    /\ pc = "cmd" /\ rec.cmd \notin {"A", "F", "H", "U"}
    /\ UNCHANGED <<live_robots_, dead_robots_, output>>
    /\ Finish

Next == ReadRecord \/ CommandA \/ CommandF \/ CommandH \/ CommandU \/ CommandOther

Spec == Init /\ [][Next]_vars

\* the program on inputs that reach the ends of the uint32_t range
ReadWide == Read(WideRecords, NWide)

NextWide == ReadWide \/ CommandA \/ CommandF \/ CommandH \/ CommandU \/ CommandOther

SpecWide == Init /\ [][NextWide]_vars

\* the program on the longer inputs
ReadLong == Read(LongRecords, NLong)

NextLong == ReadLong \/ CommandA \/ CommandF \/ CommandH

SpecLong == Init /\ [][NextLong]_vars

-----------------------------------------------------------------------------
(* Properties                                                              *)

Live == 1..Len(live_robots_)

Dead == 1..Len(dead_robots_)

Triple(r) == <<r.team_id, r.robot_id, r.type>>

\* C1: no (team_id, robot_id, kind) triple is in the live and in the dead
\* collection at once.
C1_LiveDeadDisjoint ==
    \A a \in Live, b \in Dead : Triple(live_robots_[a]) # Triple(dead_robots_[b])

\* a robot is live while a robot of the other kind with its ids is dead
C1_Witness ==
    \E a \in Live, b \in Dead :
        /\ GetId(live_robots_[a]) = GetId(dead_robots_[b])
        /\ live_robots_[a].type # dead_robots_[b].type

\* C2: the live collection holds at most one robot per (team_id, robot_id),
\* whatever the kinds.
C2_LiveIdUnique ==
    \A a, b \in Live : GetId(live_robots_[a]) = GetId(live_robots_[b]) => a = b

\* an ADD of the other kind has just been processed for a robot that is live,
\* next to a second live robot
C2_Witness ==
    /\ pc = "read" /\ rec.cmd = "A" /\ Len(live_robots_) = 2
    /\ \E a \in Live :
          /\ GetId(live_robots_[a]) = <<rec.p1, rec.p2>>
          /\ rec.p3 \in {U32(kInfantry), U32(kEngineer)}
          /\ U32(live_robots_[a].type) # rec.p3

\* the ids of the robots that are live before the step and not after it
LeftLive ==
    LET Gone(p) == \A k \in 1..Len(live_robots_') : GetId(live_robots_'[k]) # p
    IN  SelectSeq(IdsOf(live_robots_), Gone)

\* the robots that are dead after the step and were not before it
EnteredDead ==
    LET Fresh(r) == \A k \in Dead : Triple(dead_robots_[k]) # Triple(r)
    IN  SelectSeq(dead_robots_', Fresh)

\* C3: every step appends to the output exactly the ids of the robots that it
\* moves from live to dead, in order, and these robots have no blood left; a
\* step that moves none appends nothing.
C3_EventIffDeath ==
    [][/\ output' = output \o LeftLive
       /\ IdsOf(EnteredDead) = LeftLive
       /\ \A k \in 1..Len(EnteredDead) : EnteredDead[k].blood_ = U32(0)]_vars

\* a DAMAGE command has just destroyed its target, which is reported last
C3_Witness ==
    /\ pc = "read" /\ rec.cmd = "F" /\ killed = <<>>
    /\ output # <<>> /\ output[Len(output)] = <<rec.p1, rec.p2>>
    /\ \E b \in Dead : GetId(dead_robots_[b]) = <<rec.p1, rec.p2>>

\* the ids the pending command names
Target == <<rec.p1, rec.p2>>

\* the (team_id, robot_id, kind) a pending ADD names
TargetTriple == <<rec.p1, rec.p2, StaticCastRobotType(rec.p3)>>

\* C4: when a record's command runs, HandleTimeChange has run for the record's
\* time: the robots its decay destroyed are dead, not live, and reported. A
\* DAMAGE, HEAT or UPGRADE naming one of them changes nothing and emits nothing;
\* an ADD naming its ids and kind puts it back into the live collection.
C4_AdvanceBeforeCommand ==
    [][pc = "cmd" =>
        /\ Le(rec.time, last_time_)
        /\ Len(killed) <= Len(output)
        /\ \A k \in 1..Len(killed) :
              /\ IsDead(killed[k])
              /\ \E b \in Dead : dead_robots_[b] = killed[k]
              /\ \A a \in Live : GetId(live_robots_[a]) # GetId(killed[k])
              /\ output[Len(output) - Len(killed) + k] = GetId(killed[k])
        /\ \A k \in 1..Len(killed) :
              GetId(killed[k]) = Target =>
                 /\ output' = output
                 /\ rec.cmd \in {"F", "H", "U"} =>
                       live_robots_' = live_robots_ /\ dead_robots_' = dead_robots_
                 /\ (rec.cmd = "A" /\ Triple(killed[k]) = TargetTriple) =>
                       /\ \E a \in 1..Len(live_robots_') :
                             Triple(live_robots_'[a]) = TargetTriple
                       /\ \A b \in 1..Len(dead_robots_') :
                             Triple(dead_robots_'[b]) # TargetTriple]_vars

\* an ADD has just revived a robot that the decay of its own record destroyed
C4_Witness ==
    /\ pc = "read" /\ rec.cmd = "A"
    /\ \E k \in 1..Len(killed) : Triple(killed[k]) = TargetTriple
    /\ \E a \in Live : Triple(live_robots_[a]) = TargetTriple
    /\ output # <<>> /\ output[Len(output)] = Target

Max0(x) == IF x > 0 THEN x ELSE 0

\* C5: HandleTimeChange with elapsed = curr_time - last_time > 0 gives every
\* live robot heat' = max(heat - elapsed, 0), and health' = max(health - elapsed, 0)
\* if heat' > max_heat, else health' = health; the robot is then dead iff
\* health' = 0. Level-1 Infantry: (heat 150, health 80, elapsed 30) gives
\* (120, 50), and (heat 50, health 80, elapsed 30) gives (20, 80).
C5_DecayLaw ==
    [][(pc = "read" /\ Gt(rec'.time, last_time_)) =>
        LET e == Val(rec'.time) - Val(last_time_)
        IN  \A a \in Live :
               LET r == live_robots_[a]
                   heat == Max0(Val(r.heat_) - e)
                   blood == IF heat > Val(r.max_heat_)
                            THEN Max0(Val(r.blood_) - e) ELSE Val(r.blood_)
                   new == [r EXCEPT !.heat_ = U32(heat), !.blood_ = U32(blood)]
                   Example(h0, b0, h1, b1) ==
                       (/\ r.type = kInfantry /\ r.level_ = U32(1) /\ e = 30
                        /\ r.heat_ = U32(h0) /\ r.blood_ = U32(b0))
                       => \E k \in 1..Len(live_robots_') :
                             /\ GetId(live_robots_'[k]) = GetId(r)
                             /\ live_robots_'[k].heat_ = U32(h1)
                             /\ live_robots_'[k].blood_ = U32(b1)
               IN  /\ IF blood = 0
                      THEN /\ \E b \in 1..Len(dead_robots_') : dead_robots_'[b] = new
                           /\ \A k \in 1..Len(live_robots_') :
                                 GetId(live_robots_'[k]) # GetId(r)
                      ELSE \E k \in 1..Len(live_robots_') : live_robots_'[k] = new
                   /\ Example(150, 80, 120, 50)
                   /\ Example(50, 80, 20, 80)]_vars

\* 30 time units have just passed over a level-1 Infantry that now has heat 120
\* and health 50, so that it had heat 150 and health 80
C5_Witness ==
    /\ pc = "cmd" /\ elapsed = U32(30)
    /\ \E a \in Live :
          /\ live_robots_[a].type = kInfantry /\ live_robots_[a].level_ = U32(1)
          /\ live_robots_[a].heat_ = U32(120) /\ live_robots_[a].blood_ = U32(50)

\* robot 1/1 is live with this heat and health
Robot11Live(heat, blood) ==
    \E a \in Live :
        /\ GetId(live_robots_[a]) = <<1, 1>>
        /\ live_robots_[a].heat_ = U32(heat)
        /\ live_robots_[a].blood_ = U32(blood)

\* the end-to-end scenario up to and including the advance to t=80
Scenario80 == (pc = "cmd" /\ e2e = 3) => (Robot11Live(120, 70) /\ output = <<>>)

\* C6 as stated: in the end-to-end scenario the advance to t=181 leaves robot
\* 1/1 dead with heat 19 and health 0, and the output is the one event D 1 1.
C6_ScenarioAsStated ==
    /\ Scenario80
    /\ (pc = "cmd" /\ e2e = 4) =>
          /\ \E b \in Dead :
                /\ GetId(dead_robots_[b]) = <<1, 1>>
                /\ dead_robots_[b].heat_ = U32(19)
                /\ dead_robots_[b].blood_ = U32(0)
          /\ output = << <<1, 1>> >>

\* C6, amended: in the end-to-end scenario robot 1/1 has heat 120 and health 70
\* after the advance to t=80 with nothing output, and after the advance to t=181
\* it has heat 19, still health 70 (19 is not above max_heat 100), is live and
\* not dead, and nothing has been output.
C6_Scenario ==
    /\ Scenario80
    /\ (pc = "cmd" /\ e2e = 4) =>
          /\ Robot11Live(19, 70)
          /\ \A b \in Dead : GetId(dead_robots_[b]) # <<1, 1>>
          /\ output = <<>>

\* the fourth record of the scenario has been read and the time advanced to 181
C6_Witness == pc = "cmd" /\ e2e = 4 /\ last_time_ = U32(181)

\* a pending ADD that finds no live robot with its ids
AddNotLive ==
    /\ pc = "cmd" /\ rec.cmd = "A"
    /\ \A a \in Live : GetId(live_robots_[a]) # Target

\* a pending ADD of an Engineer whose ids no live robot and no dead Engineer
\* carries, while a dead Infantry does
CrossKindAdd ==
    /\ AddNotLive
    /\ TargetTriple[3] = kEngineer
    /\ \E b \in Dead : Triple(dead_robots_[b]) = <<rec.p1, rec.p2, kInfantry>>
    /\ \A b \in Dead : Triple(dead_robots_[b]) # <<rec.p1, rec.p2, kEngineer>>

\* an Engineer as its constructor leaves it
FreshEngineer ==
    [team_id |-> rec.p1, robot_id |-> rec.p2, type |-> kEngineer,
     blood_ |-> U32(300), heat_ |-> U32(0), max_blood_ |-> U32(300),
     max_heat_ |-> U32(0), level_ |-> U32(1)]

\* C7 as stated: the cross-kind ADD appends a fresh Engineer to live and leaves
\* no Infantry entry with its ids in dead.
C7_CrossKindAddPurges ==
    [][CrossKindAdd =>
        /\ live_robots_' = Append(live_robots_, FreshEngineer)
        /\ \A b \in 1..Len(dead_robots_') :
              Triple(dead_robots_'[b]) # <<rec.p1, rec.p2, kInfantry>>]_vars

\* C7, amended: when an Infantry (team, id) is dead, no robot with (team, id) is
\* live and no Engineer with (team, id) is dead, ADD(team, id, Engineer) appends a
\* fresh Engineer (health 300, heat 0) to live, revives nothing, and leaves the
\* dead collection as it was, the Infantry entry included.
C7_CrossKindAdd ==
    [][CrossKindAdd =>
        /\ live_robots_' = Append(live_robots_, FreshEngineer)
        /\ dead_robots_' = dead_robots_
        /\ output' = output]_vars

\* the third record was an ADD of an Engineer with the ids of a dead Infantry
C7_Witness ==
    /\ pc = "read" /\ rec.cmd = "A" /\ rec.p3 = U32(kEngineer) /\ i = 3
    /\ \E a \in Live : live_robots_[a] = FreshEngineer
    /\ \E b \in Dead : Triple(dead_robots_[b]) = <<rec.p1, rec.p2, kInfantry>>

\* the pending ADD names the ids and kind of a dead robot
AddOfDead == pc = "cmd" /\ rec.cmd = "A" /\ \E b \in Dead : Triple(dead_robots_[b]) = TargetTriple

RevivedAfter ==
    /\ \E a \in 1..Len(live_robots_') : Triple(live_robots_'[a]) = TargetTriple
    /\ \A b \in 1..Len(dead_robots_') : Triple(dead_robots_'[b]) # TargetTriple

\* C8 as stated: an ADD naming the ids and kind of any dead robot moves it into
\* the live collection.
C8_RevivalAlways == [][AddOfDead => RevivedAfter]_vars

\* C8, amended: an ADD naming the ids and kind of a dead robot moves it from dead
\* into live provided no live robot carries its ids; while a live robot (then of
\* the other kind) carries them, the ADD changes nothing and the robot stays dead.
C8_RevivalUnlessLive ==
    [][AddOfDead =>
        IF \A a \in Live : GetId(live_robots_[a]) # Target
        THEN RevivedAfter
        ELSE live_robots_' = live_robots_ /\ dead_robots_' = dead_robots_]_vars

\* the third record was an ADD that revived the only robot ever destroyed
C8_Witness ==
    /\ pc = "read" /\ rec.cmd = "A" /\ i = 3
    /\ output = <<Target>> /\ dead_robots_ = <<>>
    /\ \E a \in Live : Triple(live_robots_[a]) = TargetTriple

\* health and heat caps by kind and level, as numbers
CapsTable(r) ==
    IF r.type = kEngineer THEN <<300, 0>>
    ELSE IF Val(r.level_) = 2 THEN <<150, 200>>
    ELSE IF Val(r.level_) = 3 THEN <<250, 300>>
    ELSE <<100, 100>>

\* C9: an ADD that revives a dead robot appends it to live with heat 0 and
\* health = max_health, the caps being those of the level it died at (the level is
\* kept), whatever heat and health it had.
C9_RevivalReset ==
    [][(AddNotLive /\ AddOfDead) =>
        \A b \in Dead :
           Triple(dead_robots_[b]) = TargetTriple =>
              LET d == dead_robots_[b]
              IN  live_robots_' =
                     Append(live_robots_,
                            [d EXCEPT !.heat_ = U32(0),
                                      !.blood_ = U32(CapsTable(d)[1]),
                                      !.max_blood_ = U32(CapsTable(d)[1]),
                                      !.max_heat_ = U32(CapsTable(d)[2])])]_vars

\* an Infantry raised to level 3 and then destroyed has just been revived at
\* level 3 with health 250
C9_Witness ==
    /\ pc = "read" /\ rec.cmd = "A" /\ output = <<Target>> /\ dead_robots_ = <<>>
    /\ \E a \in Live :
          /\ Triple(live_robots_[a]) = TargetTriple
          /\ live_robots_[a].type = kInfantry /\ live_robots_[a].level_ = U32(3)
          /\ live_robots_[a].blood_ = U32(250) /\ live_robots_[a].heat_ = U32(0)
          /\ live_robots_[a].max_heat_ = U32(300)

\* C10: an ADD naming the ids of a live robot, with its kind or the other one,
\* changes no robot and leaves both collections and the output as they were.
C10_AddWhileLive ==
    [][(pc = "cmd" /\ rec.cmd = "A" /\ \E a \in Live : GetId(live_robots_[a]) = Target) =>
        /\ live_robots_' = live_robots_
        /\ dead_robots_' = dead_robots_
        /\ output' = output]_vars

\* an ADD has just been ignored although a dead robot has the ids and kind it names,
\* because a live robot of the other kind carries the ids
C10_Witness ==
    /\ pc = "read" /\ rec.cmd = "A"
    /\ \E b \in Dead : Triple(dead_robots_[b]) = TargetTriple
    /\ \E a \in Live : GetId(live_robots_[a]) = Target

\* the position of the live robot the pending command names, 0 if there is none
TargetLive ==
    IF \E a \in Live : GetId(live_robots_[a]) = Target
    THEN CHOOSE a \in Live : GetId(live_robots_[a]) = Target
    ELSE 0

\* C11: UPGRADE of a live Infantry at level L to T succeeds iff T > L and
\* T <= 3. Then the level is T, the caps are those of T (2: 150/200, 3: 250/300),
\* health = max_health and heat = 0; otherwise the robot is unchanged. Nothing
\* else changes either way.
C11_UpgradeBoundary ==
    [][(/\ pc = "cmd" /\ rec.cmd = "U" /\ TargetLive # 0
        /\ live_robots_[TargetLive].type = kInfantry) =>
        LET r == live_robots_[TargetLive]
            T == Val(rec.p3)
            L == Val(r.level_)
            caps == IF T = 2 THEN <<150, 200>> ELSE <<250, 300>>
            up == [r EXCEPT !.level_ = U32(T), !.max_blood_ = U32(caps[1]),
                            !.max_heat_ = U32(caps[2]), !.blood_ = U32(caps[1]),
                            !.heat_ = U32(0)]
        IN  /\ live_robots_' =
                  [live_robots_ EXCEPT ![TargetLive] = IF T > L /\ T <= 3 THEN up ELSE r]
            /\ dead_robots_' = dead_robots_
            /\ output' = output]_vars

\* an UPGRADE to level 2 has just been rejected for an Infantry at level 2: it
\* still has the heat and the damage it took after reaching level 2
C11_Witness ==
    /\ pc = "read" /\ rec.cmd = "U" /\ rec.p3 = U32(2) /\ TargetLive # 0
    /\ live_robots_[TargetLive].level_ = U32(2)
    /\ live_robots_[TargetLive].blood_ = U32(130)

\* the robot that carried the ids p in live before the step, as it is after the
\* step: still live, or else the latest dead robot with these ids
After(p) ==
    IF \E k \in 1..Len(live_robots_') : GetId(live_robots_'[k]) = p
    THEN live_robots_'[CHOOSE k \in 1..Len(live_robots_') : GetId(live_robots_'[k]) = p]
    ELSE dead_robots_'[CHOOSE k \in 1..Len(dead_robots_') :
                          /\ GetId(dead_robots_'[k]) = p
                          /\ \A j \in 1..Len(dead_robots_') :
                                GetId(dead_robots_'[j]) = p => j <= k]

\* x = max(a - b, 0), stated without a subtraction: either a > b and x + b = a
\* with x <= a, or x = 0
IsClampedDifference(x, a, b) ==
    IF Gt(a, b) THEN AddU32(x, b) = a /\ Le(x, a) /\ Gt(x, U32(0)) ELSE x = U32(0)

\* C12: no decrement wraps. A DAMAGE of any amount up to 2^32-1 on a live robot
\* gives health' = max(health - amount, 0), never more than before; a time
\* change by any elapsed value gives every live robot heat' = max(heat - elapsed, 0)
\* and a health that is either unchanged or max(health - elapsed, 0).
C12_DecrementsClamp ==
    [][/\ (pc = "cmd" /\ rec.cmd = "F" /\ TargetLive # 0) =>
             LET r == live_robots_[TargetLive]
             IN  /\ IsClampedDifference(After(Target).blood_, r.blood_, rec.p3)
                 /\ Le(After(Target).blood_, r.blood_)
       /\ (pc = "read" /\ Gt(last_time_', last_time_)) =>
             \A a \in Live :
                LET r == live_robots_[a]
                    q == After(GetId(r))
                IN  /\ IsClampedDifference(q.heat_, r.heat_, elapsed')
                    /\ Le(q.heat_, r.heat_)
                    /\ \/ q.blood_ = r.blood_
                       \/ IsClampedDifference(q.blood_, r.blood_, elapsed')
                    /\ Le(q.blood_, r.blood_)]_vars

\* a DAMAGE of 2^32-1 has just destroyed its target, whose health is 0
C12_Witness ==
    /\ pc = "read" /\ rec.cmd = "F" /\ rec.p3 = UINT32_MAX /\ killed = <<>>
    /\ output # <<>> /\ output[Len(output)] = Target
    /\ \E b \in Dead : GetId(dead_robots_[b]) = Target /\ dead_robots_[b].blood_ = U32(0)

\* the pending command names a live Engineer
TargetIsEngineer == TargetLive # 0 /\ live_robots_[TargetLive].type = kEngineer

\* C13: a HEAT or an UPGRADE naming a live Engineer, with any amount or level,
\* leaves the Engineer (its health, heat 0, max_health 300, max_heat 0, level)
\* and both collections as they were and emits nothing.
C13_EngineerIgnores ==
    [][(pc = "cmd" /\ rec.cmd \in {"H", "U"} /\ TargetIsEngineer) =>
        LET r == live_robots_[TargetLive]
        IN  /\ r.heat_ = U32(0) /\ r.max_blood_ = U32(300) /\ r.max_heat_ = U32(0)
            /\ live_robots_' = live_robots_
            /\ dead_robots_' = dead_robots_
            /\ output' = output]_vars

\* a HEAT has just been processed for a live Engineer that had taken damage: it
\* has heat 0 and the health 280 it had
C13_Witness ==
    /\ pc = "read" /\ rec.cmd = "H" /\ TargetIsEngineer
    /\ live_robots_[TargetLive].blood_ = U32(280)
    /\ live_robots_[TargetLive].heat_ = U32(0)

\* the pending command is one the program ignores: a DAMAGE, HEAT or UPGRADE
\* naming no live robot, an UPGRADE to a level that is not above the robot's or is
\* above 3, an ADD of a kind that is neither 0 nor 1, an unknown command
Inapplicable ==
    /\ pc = "cmd"
    /\ \/ rec.cmd \in {"F", "H", "U"} /\ TargetLive = 0
       \/ /\ rec.cmd = "U" /\ TargetLive # 0
          /\ Le(rec.p3, live_robots_[TargetLive].level_) \/ Gt(rec.p3, U32(3))
       \/ rec.cmd = "A" /\ rec.p3 \notin {U32(kInfantry), U32(kEngineer)}
       \/ rec.cmd \notin {"A", "F", "H", "U"}

\* C14: an inapplicable command leaves the live and the dead collection, with
\* every attribute of every robot, as HandleTimeChange left them, emits nothing,
\* and the loop goes on to read the next record.
C14_InapplicableIgnored ==
    [][Inapplicable =>
        /\ live_robots_' = live_robots_
        /\ dead_robots_' = dead_robots_
        /\ output' = output
        /\ last_time_' = last_time_
        /\ pc' = "read" /\ i' = i + 1]_vars

\* an ADD of kind 2 has just been ignored although its ids are those of a dead
\* robot and of no live one
C14_Witness ==
    /\ pc = "read" /\ rec.cmd = "A" /\ rec.p3 = U32(2) /\ TargetLive = 0
    /\ \E b \in Dead : GetId(dead_robots_[b]) = Target

\* C15: last_time_ is 0 before the first record, a read sets it to the larger of
\* itself and the record's time, and a command leaves it alone. When the record's
\* time is not later, the read changes no robot and emits nothing and the command
\* is still dispatched; when it is later, every live robot's heat decays by
\* exactly time - last_time_.
C15_LastTime ==
    [][/\ (i = 0 /\ pc = "read") => last_time_ = U32(0)
       /\ Le(last_time_, last_time_')
       /\ pc = "cmd" => last_time_' = last_time_
       /\ pc = "read" =>
             /\ pc' = "cmd"
             /\ last_time_' = IF Gt(rec'.time, last_time_) THEN rec'.time ELSE last_time_
             /\ Le(rec'.time, last_time_) =>
                   /\ live_robots_' = live_robots_
                   /\ dead_robots_' = dead_robots_
                   /\ output' = output
             /\ Gt(rec'.time, last_time_) =>
                   \A a \in Live :
                      IsClampedDifference(After(GetId(live_robots_[a])).heat_,
                                          live_robots_[a].heat_,
                                          SubU32(rec'.time, last_time_))]_vars

\* a record with a time before last_time_ has just been read while a live robot
\* has heat left
C15_Witness ==
    /\ pc = "cmd" /\ Gt(last_time_, rec.time)
    /\ \E a \in Live : Gt(live_robots_[a].heat_, U32(0))

\* the ids of the robots that are live before the step and after it, in the
\* order they have before it
Survivors ==
    LET Stays(p) == \E k \in 1..Len(live_robots_') : GetId(live_robots_'[k]) = p
    IN  SelectSeq(IdsOf(live_robots_), Stays)

\* C16: the robots a time change destroys are reported, and appended to dead, in
\* the order they stand in live; every step reports the robots it removes from
\* live in that order at the end of the output, keeps the survivors in their
\* order, and inserts a robot, built or revived, only behind all of them.
C16_LiveOrder ==
    [][/\ output' = output \o LeftLive
       /\ pc = "read" =>
             /\ LeftLive = IdsOf(killed')
             /\ dead_robots_' = dead_robots_ \o killed'
             /\ IdsOf(live_robots_') = Survivors
       /\ pc = "cmd" =>
             \/ IdsOf(live_robots_') = Survivors
             \/ /\ rec.cmd = "A" /\ TargetLive = 0
                /\ IdsOf(live_robots_') = Append(IdsOf(live_robots_), Target)]_vars

\* one time change has just destroyed robot 1/2 and then robot 1/1, which was
\* added first, destroyed, and revived after 1/2 was added
C16_Witness ==
    /\ pc = "cmd" /\ IdsOf(killed) = << <<1, 2>>, <<1, 1>> >>
    /\ output = << <<1, 1>>, <<1, 2>>, <<1, 1>> >>

\* an Infantry as its constructor leaves it
FreshInfantry ==
    [team_id |-> rec.p1, robot_id |-> rec.p2, type |-> kInfantry,
     blood_ |-> U32(100), heat_ |-> U32(0), max_blood_ |-> U32(100),
     max_heat_ |-> U32(100), level_ |-> U32(1)]

\* C17: an ADD that revives a dead robot leaves no robot of either kind with its
\* ids in dead, leaves the other dead robots in place, and has the revived robot
\* as the only one with these ids in live; an ADD of kind 0 or 1 with no live
\* robot of its ids and no dead robot of its ids and kind (purged ones included)
\* appends a newly built level-1 robot and leaves dead alone.
C17_RevivalPurges ==
    [][AddNotLive =>
        IF \E b \in Dead : Triple(dead_robots_[b]) = TargetTriple
        THEN /\ \A b \in 1..Len(dead_robots_') : GetId(dead_robots_'[b]) # Target
             /\ LET Other(r) == GetId(r) # Target
                IN  dead_robots_' = SelectSeq(dead_robots_, Other)
             /\ Len(live_robots_') = Len(live_robots_) + 1
             /\ Triple(live_robots_'[Len(live_robots_')]) = TargetTriple
        ELSE /\ dead_robots_' = dead_robots_
             /\ TargetTriple[3] = kInfantry => live_robots_' = Append(live_robots_, FreshInfantry)
             /\ TargetTriple[3] = kEngineer => live_robots_' = Append(live_robots_, FreshEngineer)]_vars

\* the sixth record, an ADD of an Engineer, has just revived it and emptied dead
\* after two destructions of robots with its ids: one was an Infantry, since an
\* Engineer destroyed twice by hits of 150 and revived takes seven records
C17_Witness ==
    /\ pc = "read" /\ i = 6 /\ rec.cmd = "A" /\ rec.p3 = U32(kEngineer)
    /\ output = <<Target, Target>>
    /\ dead_robots_ = <<>>
    /\ live_robots_ = <<FreshEngineer>>

\* C18 as stated: a HEAT on a live Infantry stores exactly heat + amount for
\* every heat and amount up to 2^32-1: the stored heat is not below the heat
\* before, exceeds it by the amount, is not capped at max_heat, and the health
\* and everything else stay as they were.
C18_HeatExactSum ==
    [][(/\ pc = "cmd" /\ rec.cmd = "H" /\ TargetLive # 0
        /\ live_robots_[TargetLive].type = kInfantry) =>
        LET r == live_robots_[TargetLive]
            q == live_robots_'[TargetLive]
        IN  /\ Le(r.heat_, q.heat_)
            /\ SubU32(q.heat_, r.heat_) = rec.p3
            /\ live_robots_' = [live_robots_ EXCEPT ![TargetLive].heat_ = q.heat_]
            /\ dead_robots_' = dead_robots_
            /\ output' = output]_vars

\* C19: every live robot has health above 0 and every dead robot has health 0,
\* after each record and between its time change and its command; no robot
\* FindLiveRobot can return satisfies IsDead.
C19_LiveHealthy ==
    /\ \A a \in Live : Gt(live_robots_[a].blood_, U32(0)) /\ ~IsDead(live_robots_[a])
    /\ \A b \in Dead : dead_robots_[b].blood_ = U32(0)

\* a record has been processed that leaves a revived robot live, with health
\* above 0, next to a dead one
C19_Witness ==
    /\ pc = "read" /\ rec.cmd = "A" /\ Dead # {}
    /\ \E k \in 1..Len(output) : output[k] = Target
    /\ TargetLive # 0 /\ Gt(live_robots_[TargetLive].blood_, U32(0))

\* the events the step appends to the output
NewEvents == SubSeq(output', Len(output) + 1, Len(output'))

\* C20: the output only grows; a robot reported destroyed is live before the
\* step that reports it and not live after it; and ids enter the live collection
\* only by an ADD naming them. So two reports of the same ids have an ADD of
\* these ids that inserted a robot between them.
C20_NoDoubleDeath ==
    [][/\ Len(output') >= Len(output)
       /\ SubSeq(output', 1, Len(output)) = output
       /\ \A k \in 1..Len(NewEvents) :
             /\ \E a \in Live : GetId(live_robots_[a]) = NewEvents[k]
             /\ \A a \in 1..Len(live_robots_') : GetId(live_robots_'[a]) # NewEvents[k]
             /\ \A j \in 1..Len(NewEvents) : NewEvents[j] = NewEvents[k] => j = k
       /\ \A a \in 1..Len(live_robots_') :
             (\A b \in Live : GetId(live_robots_[b]) # GetId(live_robots_'[a])) =>
                 /\ pc = "cmd" /\ rec.cmd = "A"
                 /\ GetId(live_robots_'[a]) = Target]_vars

\* the same robot has been reported destroyed twice
C20_Witness ==
    \E j, k \in 1..Len(output) : j < k /\ output[j] = output[k]

====
